---- MODULE Spec2Model ----
(***************************************************************************)
(* RealtimeAudioStreamer (realtime_audio_streamer.py): the object's        *)
(* attributes, the scope entry and exit, and the two async generators.     *)
(*                                                                         *)
(* PyAudio, scipy and numpy are outside the repository.  The model records *)
(* the calls the code makes on them; whether such a call returns or raises *)
(* is chosen by the environment.  A bytes object is modelled as the        *)
(* sequence of its little-endian int16 samples (two bytes per sample).     *)
(*                                                                         *)
(* The coroutines run on one event loop: a generator is suspended only at  *)
(* its yield, __aenter__ and __aexit__ contain no await.  cur names the    *)
(* coroutine that holds the loop.                                          *)
(***************************************************************************)
EXTENDS Integers, Sequences, FiniteSets, TLC

\* ---------------------------------------------------------------- bounds
\* device_indices holds at most MaxDevices entries
MaxDevices == 2
\* __aenter__ is called at most MaxEnters times on the instance
MaxEnters == 2
\* frames per read (the constructor default is 1024)
chunk == 1

\* ------------------------------------------------------ program constants
sample_rate == 24000
channels == 1
\* Python None (self.audio, an entry of self.streams)
None == 0
\* an attribute the constructor never assigns (a read raises AttributeError)
Unset == -1

\* ------------------------------------------------------------ environment
\* indices the caller may configure; RealDevices resolve to an input device
DeviceIds == {2, 3, 9}
RealDevices == {2, 3}
\* defaultSampleRate the device API reports
NativeRate(d) == IF d = 2 THEN 24000 ELSE 16000
\* sample values a device read delivers
SampleVals == {1000, -1000}
\* values scipy's resample may deliver (floats, possibly beyond int16)
InterpVals == {1000, 40000}
Gens == {"multi", "single"}

VARIABLES
  device_indices,         \* self.device_indices
  device_index,           \* self.device_index (read by __aenter__, Unset after __init__)
  audio,                  \* self.audio: None or a PyAudio handle
  stream,                 \* self.stream (assigned by __aenter__, Unset after __init__)
  original_sample_rate,   \* self.original_sample_rate (assigned by __aenter__)
  streams,                \* self.streams: sequence of Stream objects or None
  original_sample_rates,  \* self.original_sample_rates: device index -> rate
  streaming,              \* self.streaming
  handles,                \* PyAudio handles created and not terminated
  hw,                     \* Stream object -> what the code did with it last: "active"
                          \* (opened), "stopped" (stop_stream returned), "closed"
  nEnters,                \* number of __aenter__ calls so far
  phase,                  \* "Idle" | "Streaming" | "Stopped"
  err,                    \* exception the last entry/exit raised to the caller
  xres,                   \* the last __aexit__ call: "none" | "running" | "returned" | "raised"
  cur,                    \* coroutine holding the event loop, or "none"
  pc,                     \* generator -> "new" | "top" | "read" | "yield" | "done"
  i,                      \* position of the running for loop (zip, or streams in __aexit__)
  acc,                    \* generator -> its local audio_data / audio_arrays
  res,                    \* outcomes of the reads of the cycle, in order (TRUE: no exception)
  out,                    \* generator -> the item the pull in progress or last ended yielded
  generr,                 \* generator -> TRUE once its outer except clause ran
  ev,                     \* the step taken last
  call                    \* a direct call of a pure method: its arguments and result

vars == <<device_indices, device_index, audio, stream, original_sample_rate,
          streams, original_sample_rates, streaming, handles, hw, nEnters,
          phase, err, xres, cur, pc, i, acc, res, out, generr, ev, call>>

attrs == <<device_indices, device_index, audio, stream, original_sample_rate,
           streams, original_sample_rates, streaming>>
hardware == <<handles, hw>>
genvars == <<pc, acc, res, out, generr>>
\* no direct call of a pure method is in progress
NoCall == [fn |-> "none"]

\* ------------------------------------------------------------- helpers
Min(a, b) == IF a < b THEN a ELSE b
Range(s) == {s[k] : k \in 1..Len(s)}
\* sequences over S of length at most n without repetition
DistinctSeqs(S, n) ==
  {s \in UNION {[1..k -> S] : k \in 0..n} : \A a, b \in 1..Len(s) : a # b => s[a] # s[b]}
\* Stream objects: the k-th session attached by the caller, the one __aenter__ opens
SessionStream(k) == k
EnterStream(h) == 100 + h

\* __init__
Init ==
  /\ device_indices = <<>>
  /\ device_index = Unset
  /\ audio = None
  /\ stream = Unset
  /\ original_sample_rate = Unset
  /\ streams = <<>>
  /\ original_sample_rates = <<>>
  /\ streaming = FALSE
  /\ handles = {}
  /\ hw = <<>>
  /\ nEnters = 0
  /\ phase = "Idle"
  /\ err = "none"
  /\ xres = "none"
  /\ cur = "none"
  /\ pc = [g \in Gens |-> "new"]
  /\ i = 0
  /\ acc = [g \in Gens |-> <<>>]
  /\ res = <<>>
  /\ out = [g \in Gens |-> <<>>]
  /\ generr = [g \in Gens |-> FALSE]
  /\ ev = "init"
  /\ call = NoCall

Fresh == phase = "Idle" /\ nEnters = 0 /\ cur = "none" /\ \A g \in Gens : pc[g] = "new"

\* ------------------------------------------------- the caller's configuration
\* The constructor takes no device configuration ("TODO: Make it take in Hydra
\* config"): a caller supplies it by assigning the public attributes of the new
\* object, before its first use.
SetDeviceIndices ==
  /\ Fresh
  /\ \E ds \in DistinctSeqs(DeviceIds, MaxDevices) : device_indices' = ds
  /\ ev' = "configure"
  /\ UNCHANGED <<call, device_index, audio, stream, original_sample_rate, streams,
                 original_sample_rates, streaming, hardware, nEnters, phase, err,
                 xres, cur, i, genvars>>

SetDeviceIndex ==
  /\ Fresh
  /\ \E d \in DeviceIds : device_index' = d
  /\ ev' = "configure"
  /\ UNCHANGED <<call, device_indices, audio, stream, original_sample_rate, streams,
                 original_sample_rates, streaming, hardware, nEnters, phase, err,
                 xres, cur, i, genvars>>

\* streams and original_sample_rates are filled by nothing in the class: the
\* sessions the generators read are the ones the caller puts there.
AttachSessions ==
  /\ Fresh
  /\ \E n \in 0..MaxDevices, holes \in SUBSET (1..MaxDevices) :
       /\ holes \subseteq 1..n
       /\ streams' = [k \in 1..n |-> IF k \in holes THEN None ELSE SessionStream(k)]
       /\ hw' = [s \in {SessionStream(k) : k \in (1..n) \ holes} |-> "active"]
  /\ original_sample_rates' = [d \in RealDevices |-> NativeRate(d)]
  /\ ev' = "configure"
  /\ UNCHANGED <<call, device_indices, device_index, audio, stream, original_sample_rate,
                 streaming, handles, nEnters, phase, err, xres, cur, i, genvars>>

\* ------------------------------------------------------------- __aenter__
\* self.audio = PyAudio(); the handle of the n-th call is n
NewHandle == nEnters + 1

\* line 31 reads self.device_index, which __init__ never assigns: AttributeError
\* is not an IndexError and leaves the try block uncaught
EnterAttributeError ==
  /\ device_index = Unset
  /\ err' = "AttributeError"
  /\ ev' = "enter_raise"
  /\ UNCHANGED <<stream, original_sample_rate, streaming, hw, phase>>

\* get_device_info_by_index raises IndexError: lines 33-34
EnterInvalidDevice ==
  /\ device_index # Unset
  /\ device_index \notin RealDevices
  /\ err' = "InvalidDeviceIndexError"
  /\ ev' = "enter_raise"
  /\ UNCHANGED <<stream, original_sample_rate, streaming, hw, phase>>

\* self.audio.open raises (device busy, unsupported format): lines 36-43
EnterOpenFails ==
  /\ device_index \in RealDevices
  /\ original_sample_rate' = NativeRate(device_index)
  /\ err' = "OSError"
  /\ ev' = "enter_raise"
  /\ UNCHANGED <<stream, streaming, hw, phase>>

EnterOk ==
  /\ device_index \in RealDevices
  /\ original_sample_rate' = NativeRate(device_index)
  /\ stream' = EnterStream(NewHandle)
  /\ hw' = (EnterStream(NewHandle) :> "active") @@ hw
  /\ streaming' = TRUE
  /\ phase' = "Streaming"
  /\ err' = "none"
  /\ ev' = "enter_ok"

Enter ==
  /\ cur = "none"
  /\ nEnters < MaxEnters
  /\ nEnters' = nEnters + 1
  /\ audio' = NewHandle
  /\ handles' = handles \cup {NewHandle}
  /\ \/ EnterAttributeError
     \/ EnterInvalidDevice
     \/ EnterOpenFails
     \/ EnterOk
  /\ UNCHANGED <<call, device_indices, device_index, streams, original_sample_rates,
                 xres, cur, i, genvars>>

\* -------------------------------------------------------------- __aexit__
\* line 48.  A caller leaves only a scope it has entered ("async with" does
\* not call __aexit__ when __aenter__ raised on a new object).
ExitBegin ==
  /\ cur = "none"
  /\ phase # "Idle"
  /\ streaming' = FALSE
  /\ phase' = "Stopped"
  /\ cur' = "exit"
  /\ i' = 1
  /\ xres' = "running"
  /\ ev' = "exit_begin"
  /\ UNCHANGED <<call, device_indices, device_index, audio, stream, original_sample_rate,
                 streams, original_sample_rates, hardware, nEnters, err, genvars>>

\* one iteration of "for stream in self.streams" (lines 49-52)
ExitSkipNone ==
  /\ streams[i] = None
  /\ i' = i + 1
  /\ ev' = "exit_skip"
  /\ UNCHANGED <<hw, err, cur, xres>>

ExitCloseStream ==
  /\ streams[i] # None
  /\ hw' = [hw EXCEPT ![streams[i]] = "closed"]
  /\ i' = i + 1
  /\ ev' = "exit_close"
  /\ UNCHANGED <<err, cur, xres>>

\* stop_stream() raises: nothing catches it in __aexit__
ExitStopRaises ==
  /\ streams[i] # None
  /\ err' = "OSError"
  /\ cur' = "none"
  /\ i' = 0
  /\ xres' = "raised"
  /\ ev' = "exit_raise"
  /\ UNCHANGED hw

\* stop_stream() returns and close() raises
ExitCloseRaises ==
  /\ streams[i] # None
  /\ hw' = [hw EXCEPT ![streams[i]] = "stopped"]
  /\ err' = "OSError"
  /\ cur' = "none"
  /\ i' = 0
  /\ xres' = "raised"
  /\ ev' = "exit_raise"

ExitStream ==
  /\ cur = "exit"
  /\ i <= Len(streams)
  /\ \/ ExitSkipNone
     \/ ExitCloseStream
     \/ ExitStopRaises
     \/ ExitCloseRaises
  /\ UNCHANGED <<call, device_indices, device_index, audio, stream, original_sample_rate,
                 streams, original_sample_rates, streaming, handles, nEnters, phase,
                 genvars>>

TerminateBeforeLoop == TRUE
\* the for loop of lines 49-52 has run over every entry of self.streams
TeardownLoopDone == i > Len(streams)

\* lines 53-57
ExitFinish ==
  /\ cur = "exit"
  /\ TeardownLoopDone
  /\ streams' = <<>>
  /\ handles' = IF audio # None THEN handles \ {audio} ELSE handles
  /\ audio' = None
  /\ err' = "none"
  /\ cur' = "none"
  /\ i' = 0
  /\ xres' = "returned"
  /\ ev' = "exit_done"
  /\ UNCHANGED <<call, device_indices, device_index, stream, original_sample_rate,
                 original_sample_rates, streaming, hw, nEnters, phase, genvars>>

\* ----------------------------------------------------------- pure functions
LenBytes(b) == 2 * Len(b)
\* Python's round on a quotient a/b (b > 0): to nearest, ties to even
Round(a, b) ==
  LET q == a \div b
      r == a % b
  IN  IF 2 * r < b THEN q
      ELSE IF 2 * r > b THEN q + 1
      ELSE IF q % 2 = 0 THEN q ELSE q + 1
\* ndarray.astype(np.int16) on an integral value
AsInt16(v) == ((v + 32768) % 65536) - 32768
\* np.clip(x, -32768, 32767)
Clip(v) == IF v < -32768 THEN -32768 ELSE IF v > 32767 THEN 32767 ELSE v
\* the integral part of a / n, as the cast of a float to an integer takes it
TruncDiv(a, n) == IF a >= 0 THEN a \div n ELSE -((-a) \div n)

\* line 63
number_of_samples(audio_data, original, target) ==
  Round(LenBytes(audio_data) * target, original)
\* what scipy's resample(x, num) may return: num values
ResampleResults(num) == {[k \in 1..num |-> v] : v \in InterpVals}
\* lines 59-65; y is what resample returned
_resample_audio(audio_data, original, target, y) ==
  IF original = target THEN audio_data
  ELSE [k \in 1..Len(y) |-> AsInt16(y[k])]

AccumulateInt16(a, b) == AsInt16(a + b)
\* np.sum adds int16 input in the platform integer (np.add.reduce upcasts)
Accumulate(a, b) == a + b
RECURSIVE SumAt(_, _)
SumAt(arrays, j) ==
  IF arrays = <<>> THEN 0 ELSE Accumulate(Head(arrays)[j], SumAt(Tail(arrays), j))
\* np.sum(audio_arrays, axis=0) raises ValueError when the arrays differ in
\* length (numpy 1.24 and later refuse the ragged list)
Ragged(arrays) == \E a, b \in 1..Len(arrays) : Len(arrays[a]) # Len(arrays[b])
\* lines 67-72: [err |-> the call raised, val |-> the array it returned]
_mix_audio_chunks(audio_arrays) ==
  IF audio_arrays = <<>> THEN [err |-> FALSE, val |-> <<>>]
  ELSE IF Ragged(audio_arrays) THEN [err |-> TRUE, val |-> <<>>]
  ELSE [err |-> FALSE,
        val |-> [j \in 1..Len(audio_arrays[1]) |->
                   AsInt16(Clip(TruncDiv(SumAt(audio_arrays, j), Len(audio_arrays))))]]

\* ------------------------------------------------------------ generators
\* zip(self.device_indices, self.streams) stops at the shorter of the two
ZipLen == Min(Len(device_indices), Len(streams))
PutFirst(d, k, v) == <<[key |-> k, val |-> v]>> \o d
PutUnderEntryIndex(d, k, v) == Append(d, [key |-> device_index, val |-> v])
\* audio_data[device_index] = resampled_data on an insertion-ordered dict
Put(d, k, v) ==
  IF \E n \in 1..Len(d) : d[n].key = k
    THEN [n \in 1..Len(d) |-> IF d[n].key = k THEN [key |-> k, val |-> v] ELSE d[n]]
    ELSE Append(d, [key |-> k, val |-> v])
Keys(d) == {d[n].key : n \in 1..Len(d)}

\* the caller awaits __anext__: a new generator starts, a suspended one resumes
\* after its yield; both arrive at the while test.  The generators write no
\* attribute of the object, so they do not affect one another: a run follows
\* one of them.
Pull(g) ==
  /\ cur = "none"
  /\ pc[g] \in {"new", "yield"}
  /\ \A h \in Gens \ {g} : pc[h] = "new"
  /\ cur' = g
  /\ pc' = [pc EXCEPT ![g] = "top"]
  /\ out' = [out EXCEPT ![g] = <<>>]
  /\ res' = <<>>
  /\ ev' = "pull"
  /\ UNCHANGED <<call, attrs, hardware, nEnters, phase, err, xres, i, acc, generr>>

WhileTestIgnoresFlag == TRUE
\* while self.streaming (lines 76, 96)
WhileTest == streaming

LoopTop(g) ==
  /\ cur = g
  /\ pc[g] = "top"
  /\ IF WhileTest
       THEN /\ pc' = [pc EXCEPT ![g] = "read"]
            /\ acc' = [acc EXCEPT ![g] = <<>>]
            /\ res' = <<>>
            /\ i' = 1
            /\ cur' = cur
            /\ ev' = "cycle"
       ELSE /\ pc' = [pc EXCEPT ![g] = "done"]
            /\ acc' = [acc EXCEPT ![g] = <<>>]
            /\ cur' = "none"
            /\ ev' = "exhausted"
            /\ UNCHANGED <<res, i>>
  /\ UNCHANGED <<call, attrs, hardware, nEnters, phase, err, xres, out, generr>>

\* the body of the for loop raises: stream.read (a None entry, a closed or
\* failing stream), the rate lookup, resample, or np.frombuffer; the except
\* clause of lines 87-88 / 108-109 prints and the for loop goes on
ReadFails(g) ==
  /\ UNCHANGED acc
  /\ res' = Append(res, FALSE)
  /\ ev' = "read_fail"

\* lines 80-86 / 100-107 without an exception
ReadOk(g) ==
  /\ streams[i] # None
  /\ hw[streams[i]] = "active"
  /\ device_indices[i] \in DOMAIN original_sample_rates
  /\ \E data \in [1..(chunk * channels) -> SampleVals] :
       LET rate == original_sample_rates[device_indices[i]]
       IN  \E y \in ResampleResults(number_of_samples(data, rate, sample_rate)) :
             LET resampled_data == _resample_audio(data, rate, sample_rate, y)
             IN  acc' = [acc EXCEPT ![g] =
                           IF g = "multi"
                             THEN Put(acc[g], device_indices[i], resampled_data)
                             ELSE Append(acc[g], resampled_data)]
  /\ res' = Append(res, TRUE)
  /\ ev' = "read_ok"

ReadDevice(g) ==
  /\ cur = g
  /\ pc[g] = "read"
  /\ i <= ZipLen
  /\ \/ ReadFails(g)
     \/ ReadOk(g)
  /\ i' = i + 1
  /\ UNCHANGED <<call, attrs, hardware, nEnters, phase, err, xres, cur, pc, out, generr>>

CollectedAlways(a) == TRUE
CollectedWhileStreaming(a) == a # <<>> /\ streaming
\* if audio_data: / if audio_arrays: (lines 89, 110)
Collected(a) == a # <<>>

\* lines 89-90
MultiCycleEnd ==
  /\ cur = "multi"
  /\ pc["multi"] = "read"
  /\ i > ZipLen
  /\ IF Collected(acc["multi"])
       THEN /\ out' = [out EXCEPT !["multi"] = acc["multi"]]
            /\ pc' = [pc EXCEPT !["multi"] = "yield"]
            /\ cur' = "none"
            /\ ev' = "yield"
       ELSE /\ pc' = [pc EXCEPT !["multi"] = "top"]
            /\ ev' = "empty_cycle"
            /\ UNCHANGED <<out, cur>>
  /\ i' = 0
  /\ UNCHANGED <<call, attrs, hardware, nEnters, phase, err, xres, acc, res, generr>>

\* lines 110-114: a raise of _mix_audio_chunks is outside the inner try and
\* reaches the except clause around the while loop, which ends the generator
SingleCycleEnd ==
  /\ cur = "single"
  /\ pc["single"] = "read"
  /\ i > ZipLen
  /\ IF Collected(acc["single"])
       THEN LET mixed_data == _mix_audio_chunks(acc["single"])
            IN  IF mixed_data.err
                  THEN /\ generr' = [generr EXCEPT !["single"] = TRUE]
                       /\ pc' = [pc EXCEPT !["single"] = "done"]
                       /\ acc' = [acc EXCEPT !["single"] = <<>>]
                       /\ cur' = "none"
                       /\ ev' = "gen_error"
                       /\ UNCHANGED out
                  ELSE /\ out' = [out EXCEPT !["single"] = mixed_data.val]
                       /\ pc' = [pc EXCEPT !["single"] = "yield"]
                       /\ cur' = "none"
                       /\ ev' = "yield"
                       /\ UNCHANGED <<acc, generr>>
       ELSE /\ pc' = [pc EXCEPT !["single"] = "top"]
            /\ ev' = "empty_cycle"
            /\ UNCHANGED <<acc, out, cur, generr>>
  /\ i' = 0
  /\ UNCHANGED <<call, attrs, hardware, nEnters, phase, err, xres, res>>

GenStep ==
  \/ \E g \in Gens : LoopTop(g)
  \/ \E g \in Gens : ReadDevice(g)
  \/ MultiCycleEnd
  \/ SingleCycleEnd

Next ==
  \/ SetDeviceIndices
  \/ SetDeviceIndex
  \/ AttachSessions
  \/ Enter
  \/ ExitBegin
  \/ ExitStream
  \/ ExitFinish
  \/ \E g \in Gens : Pull(g)
  \/ GenStep

Spec == Init /\ [][Next]_vars

\* The event loop runs the coroutine that holds it until it suspends or ends;
\* a caller that has begun to leave the scope completes __aexit__.
FairSpec ==
  /\ Spec
  /\ WF_vars(GenStep)
  /\ WF_vars(ExitBegin \/ ExitStream \/ ExitFinish)

\* ------------------------------------- direct calls of the pure methods
\* _mix_audio_chunks and _resample_audio called on their own, on at most
\* MaxBuffers buffers of at most MaxLen samples
MaxBuffers == 2
MaxLen == 2
\* int16 samples at the ends of the range and inside it
MixVals == {-32768, 1, 32767}
PureRates == {16000, 24000, 48000}
Buffers(V) == UNION {[1..l -> V] : l \in 0..MaxLen}
streamer == <<attrs, hardware, nEnters, phase, err, xres, cur, i, genvars, ev>>

CallMix ==
  /\ call = NoCall
  /\ \E n \in 0..MaxBuffers : \E audio_arrays \in [1..n -> Buffers(MixVals)] :
       call' = [fn |-> "mix", audio_arrays |-> audio_arrays,
                ret |-> _mix_audio_chunks(audio_arrays)]
  /\ UNCHANGED streamer

CallResample ==
  /\ call = NoCall
  /\ \E audio_data \in Buffers(SampleVals), original \in PureRates, target \in PureRates :
       \E y \in ResampleResults(number_of_samples(audio_data, original, target)) :
          call' = [fn |-> "resample", audio_data |-> audio_data,
                   original |-> original, target |-> target, y |-> y,
                   ret |-> _resample_audio(audio_data, original, target, y)]
  /\ UNCHANGED streamer

Return ==
  /\ call # NoCall
  /\ call' = NoCall
  /\ UNCHANGED streamer

NextPure == CallMix \/ CallResample \/ Return

PureSpec == Init /\ [][NextPure]_vars

\* ------------------------------------------------------------------ claims
\* devices of the running cycle whose loop body ran without an exception
ReadSucceeded == {device_indices[k] : k \in {n \in 1..Len(res) : res[n]}}
Yielded(g) == ev = "yield" /\ pc[g] = "yield"

\* C1: once __aexit__ has run (Stopped), a pulled generator takes exactly one
\* step, the while test, and is exhausted: it reads no device, yields no item
\* and does not reach its except clause.
C1_StoppedPullExhausts ==
  /\ [](phase = "Stopped" /\ cur \in Gens => pc[cur] = "top" /\ out[cur] = <<>>)
  /\ [][phase = "Stopped" /\ cur \in Gens =>
          /\ pc'[cur] = "done"
          /\ cur' = "none"
          /\ ev' = "exhausted"
          /\ out' = out
          /\ generr' = generr]_vars

\* the streamer was entered and left, __aexit__ returned, and a generator
\* pulled afterwards is exhausted without an item
C1_Witness ==
  /\ phase = "Stopped"
  /\ xres = "returned"
  /\ stream # Unset
  /\ ev = "exhausted"
  /\ Len(device_indices) = 2
  /\ \E g \in Gens : pc[g] = "done" /\ out[g] = <<>>

\* C2: once __aexit__ has run on the instance, the streaming flag is never
\* true again.
C2_StoppedIsTerminal == xres # "none" => ~streaming

\* C3: during and at the end of every cycle of multi_channel_gen the keys of
\* the frame are exactly the devices read without exception so far; a cycle
\* ends only after every pair of zip(device_indices, streams) was attempted,
\* whatever failed before, and the yielded frame is the cycle's frame.
C3_FrameKeysAreSucceededDevices ==
  /\ (cur = "multi" /\ pc["multi"] = "read") =>
        /\ Len(res) = i - 1
        /\ Keys(acc["multi"]) = ReadSucceeded
  /\ ev \in {"yield", "empty_cycle"} => Len(res) = ZipLen
  /\ Yielded("multi") =>
        /\ Keys(out["multi"]) = ReadSucceeded
        /\ Len(out["multi"]) = Cardinality(ReadSucceeded)

\* the first device failed, the second was still read and is the frame's only key
C3_Witness ==
  /\ Yielded("multi")
  /\ res = <<FALSE, TRUE>>
  /\ Keys(out["multi"]) = {device_indices[2]}

\* C4: a yielded frame has at least one entry, a mixed chunk is yielded only
\* when a buffer was collected, and a cycle whose reads all failed yields
\* nothing.
C4_NoEmptyYield ==
  /\ Yielded("multi") => Len(out["multi"]) >= 1
  /\ Yielded("single") => Len(acc["single"]) >= 1
  /\ ev = "yield" => \E k \in 1..Len(res) : res[k]
  /\ (ev = "empty_cycle" /\ cur \in Gens) => out[cur] = <<>>

\* every read of a cycle of two devices failed and nothing was yielded
C4_Witness ==
  /\ ev = "empty_cycle"
  /\ res = <<FALSE, FALSE>>
  /\ \E g \in Gens : cur = g /\ pc[g] = "top" /\ out[g] = <<>>

\* C5: no failure inside a read cycle ends a generator: the except clause
\* around the while loop is never reached.
C5_NoCycleFailureEndsLoop == \A g \in Gens : ~generr[g]

InvalidConfigured ==
  \/ \E k \in 1..Len(device_indices) : device_indices[k] \notin RealDevices
  \/ (device_index # Unset /\ device_index \notin RealDevices)
C7_InvalidIndexRejected ==
  (ev \in {"enter_ok", "enter_raise"} /\ InvalidConfigured)
     => err = "InvalidDeviceIndexError"

\* C8: after a successful __aenter__ there is one session per configured
\* index and a native rate for every configured index.
C8_OneSessionPerDevice ==
  ev = "enter_ok" =>
     /\ Len(streams) = Len(device_indices)
     /\ \A k \in 1..Len(streams) : streams[k] # None
     /\ \A k \in 1..Len(device_indices) :
          device_indices[k] \in DOMAIN original_sample_rates

\* C9: when __aexit__ returns, every stream __aenter__ opened is closed and
\* no PyAudio handle is left.
C9_ExitClosesEnteredStreams ==
  ev = "exit_done" =>
     /\ \A h \in 1..nEnters :
          EnterStream(h) \in DOMAIN hw => hw[EnterStream(h)] = "closed"
     /\ handles = {}

\* C10: __aexit__ never raises, and when it ends every session is closed and
\* the handle is released.
C10_TeardownIsTotal ==
  ev \in {"exit_done", "exit_raise"} =>
     /\ xres = "returned"
     /\ \A s \in DOMAIN hw : s \in Range(streams) => hw[s] = "closed"
     /\ audio = None

\* C11: an __aenter__ that raises after it created the PyAudio handle (the
\* index is no input device, or the open of the stream fails) has released
\* that handle when it ends.
C11_FailedEntryHoldsNothing ==
  (ev = "enter_raise" /\ err \in {"InvalidDeviceIndexError", "OSError"})
     => nEnters \notin handles

Abs(v) == IF v < 0 THEN -v ELSE v
RECURSIVE MinLenOf(_)
MinLenOf(arrays) ==
  IF Len(arrays) = 1 THEN Len(arrays[1])
  ELSE Min(Len(arrays[1]), MinLenOf(Tail(arrays)))
\* v is the mean total / n, cut to an integer
IsMean(v, total, n) == Abs(total - n * v) < n
RECURSIVE Total(_, _)
Total(arrays, j) == IF arrays = <<>> THEN 0 ELSE arrays[1][j] + Total(Tail(arrays), j)

\* C13: _mix_audio_chunks on a non-empty list returns, without raising, a
\* buffer as long as the shortest input, each sample the mean of the inputs
\* at its position.
C13_MixTruncatesToShortest ==
  (call.fn = "mix" /\ call.audio_arrays # <<>>) =>
     /\ ~call.ret.err
     /\ Len(call.ret.val) = MinLenOf(call.audio_arrays)
     /\ \A j \in 1..Len(call.ret.val) :
          IsMean(call.ret.val[j], Total(call.audio_arrays, j), Len(call.audio_arrays))

\* C14: on buffers of equal length _mix_audio_chunks returns, at every
\* position, the mean of the int16 inputs (the sum taken without wrapping),
\* inside [-32768, 32767]; the empty list gives the empty buffer and a single
\* buffer is returned unchanged.
C14_MixIsMean ==
  (call.fn = "mix" /\ ~Ragged(call.audio_arrays)) =>
     /\ ~call.ret.err
     /\ call.audio_arrays = <<>> => call.ret.val = <<>>
     /\ Len(call.audio_arrays) = 1 => call.ret.val = call.audio_arrays[1]
     /\ call.audio_arrays # <<>> =>
          /\ Len(call.ret.val) = Len(call.audio_arrays[1])
          /\ \A j \in 1..Len(call.ret.val) :
               /\ call.ret.val[j] \in -32768..32767
               /\ IsMean(call.ret.val[j], Total(call.audio_arrays, j),
                         Len(call.audio_arrays))

\* two buffers whose sum leaves the int16 range at the first position and
\* falls below it at the second
C14_Witness ==
  /\ call.fn = "mix"
  /\ call.audio_arrays = <<<<32767, -32768>>, <<32767, -32768>>>>
  /\ call.ret.val = <<32767, -32768>>

\* C15: every sample _resample_audio returns after resampling is the value
\* resample delivered, clamped into [-32768, 32767].
C15_ResampleSaturates ==
  (call.fn = "resample" /\ call.original # call.target) =>
     /\ Len(call.ret) = Len(call.y)
     /\ \A k \in 1..Len(call.ret) : call.ret[k] = Clip(call.y[k])

\* C16: the buffer _resample_audio returns for n samples holds within one of
\* round(n * target / original) samples, and the input itself when the rates
\* are equal.
C16_ResampleLength ==
  call.fn = "resample" =>
     IF call.original = call.target
       THEN call.ret = call.audio_data
       ELSE Abs(Len(call.ret)
                - Round(Len(call.audio_data) * call.target, call.original)) <= 1

\* the keys of a frame, in insertion order
KeySeq(d) == [n \in 1..Len(d) |-> d[n].key]
\* the configured indices of the reads that succeeded, in configured order
RECURSIVE KeysRead(_)
KeysRead(r) ==
  IF r = <<>> THEN <<>>
  ELSE LET front == KeysRead(SubSeq(r, 1, Len(r) - 1))
       IN  IF r[Len(r)] THEN Append(front, device_indices[Len(r)]) ELSE front

StopFlag ==
  /\ cur \in Gens
  /\ streaming
  /\ streaming' = FALSE
  /\ ev' = "stop_flag"
  /\ UNCHANGED <<call, device_indices, device_index, audio, stream,
                 original_sample_rate, streams, original_sample_rates,
                 hardware, nEnters, phase, err, xres, cur, i, genvars>>

NextThread == Next \/ StopFlag

ThreadSpec == Init /\ [][NextThread]_vars

Succeeded(r) == Cardinality({k \in 1..Len(r) : r[k]})

\* C19: single_channel_gen yields in exactly the cycles in which
\* multi_channel_gen does, those with at least one successful read, ends only
\* where multi_channel_gen ends (at the while test), and its chunk is the mix
\* of the buffers of the successful reads, one per entry of the frame.
C19_SingleMatchesMulti ==
  (pc["single"] # "new" /\ ev \in {"yield", "empty_cycle", "gen_error"}) =>
     IF Succeeded(res) > 0
       THEN /\ Yielded("single")
            /\ Len(acc["single"]) = Succeeded(res)
            /\ out["single"] = _mix_audio_chunks(acc["single"]).val
       ELSE ev = "empty_cycle" /\ pc["single"] = "top"

\* C20: a read is issued (lines 80 / 100) only on a session that has not been
\* closed, with the PyAudio handle still held, and never once __aexit__ has
\* run.
C20_NoReadAfterExit ==
  [][Len(res') > Len(res) =>
       /\ xres = "none"
       /\ audio \in handles
       /\ streams[i] # None => hw[streams[i]] = "active"]_vars

====
